---- MODULE Spec2Model ----
(***************************************************************************)
(* Model of the turso CLI command `db shell` and of the query dispatcher  *)
(* doQueryContext (internal/cmd/db_shell.go), and of the command          *)
(* `db create` (internal/cmd/db_create.go).                                *)
(*                                                                         *)
(* Strings are sequences of one-character strings, so that URL parsing,    *)
(* suffix tests and concatenation are computed rather than assumed.        *)
(***************************************************************************)
EXTENDS Integers, Sequences, FiniteSets, TLC

VARIABLES
    args,            \* command line arguments of `db shell` (1 or 2 strings)
    dbs,             \* what client.Databases.List() returns (listing order)
    pc,              \* position of shellCmd.RunE
    spinnerActive,   \* the connection-progress indicator is running
    startCalls,      \* calls of spinner.Start()
    stopCalls,       \* calls of spinner.Stop()
    stopEffects,     \* calls of spinner.Stop() that found it running
    deferStop,       \* `defer spinner.Stop()` is registered
    route,           \* branch databaseFromNameOrURL took: "none", "url", "name"
    db,              \* *turso.Database of RunE (NilDb for nil)
    token,           \* token of RunE
    shellConfig,     \* shell.ShellConfig handed to the shell (NoConfig before)
    calls,           \* external calls made so far, in order
    tokenReqs,       \* arguments of every client.Databases.Token call
    callbackCalls,   \* invocations of AfterDbConnectionCallback
    lines,           \* statements the shell has executed
    outcome,         \* "none" while running, "ok", or the error returned
    qUrl, qToken, qStmt,   \* arguments of doQueryContext
    qPc,             \* position of doQueryContext
    posts,           \* HTTP requests handed to http.DefaultClient.Do
    qResult,         \* what doQueryContext returned
    cArgs,           \* command line arguments of `db create` (0 or 1 strings)
    locationFlag,    \* --location ("" when not given)
    canaryFlag,      \* --canary
    fromFileFlag,    \* --from-file ("" when not given)
    cPc,             \* position of createCmd.RunE
    cName,           \* name of createCmd.RunE
    region,          \* region of createCmd.RunE
    dbFile,          \* dbFile of createCmd.RunE ("nil" for nil)
    barActive,       \* the creation spinner is running
    remoteDbs,       \* names of the databases that exist on the remote
    remoteInstances, \* names of the databases that have an instance
    cCalls,          \* remote calls of createCmd.RunE so far, in order
    settingsOps,     \* changes made to the local settings, in order
    cOutcome         \* "none" while running, "ok", or the error returned

shellVars == <<args, dbs, pc, spinnerActive, startCalls, stopCalls, stopEffects,
               deferStop, route, db, token, shellConfig, calls, tokenReqs,
               callbackCalls, lines, outcome>>
queryVars == <<qUrl, qToken, qStmt, qPc, posts, qResult>>
createVars == <<cArgs, locationFlag, canaryFlag, fromFileFlag, cPc, cName, region,
                dbFile, barActive, remoteDbs, remoteInstances, cCalls,
                settingsOps, cOutcome>>
vars == <<shellVars, queryVars, createVars>>

-----------------------------------------------------------------------------
(* Bounds *)

\* databases in a directory listing
MaxDbs == 2
\* statements typed into one interactive session
MaxLines == 2
\* fragments concatenated into one SQL text
MaxFrags == 3

-----------------------------------------------------------------------------
(* Strings (package strings) *)

HasPrefix(s, p) == Len(p) <= Len(s) /\ SubSeq(s, 1, Len(p)) = p

HasSuffix(s, p) == Len(p) <= Len(s) /\ SubSeq(s, Len(s) - Len(p) + 1, Len(s)) = p

\* strings.Index for a one-byte needle, 1-based; 0 when absent
IndexByte(s, c) ==
    IF \E i \in 1..Len(s) : s[i] = c
    THEN CHOOSE i \in 1..Len(s) : s[i] = c /\ \A j \in 1..(i - 1) : s[j] # c
    ELSE 0

\* strings.LastIndex for a one-byte needle, 1-based; 0 when absent
LastIndexByte(s, c) ==
    IF \E i \in 1..Len(s) : s[i] = c
    THEN CHOOSE i \in 1..Len(s) : s[i] = c /\ \A j \in (i + 1)..Len(s) : s[j] # c
    ELSE 0

\* occurrences of p in s
Count(s, p) ==
    Cardinality({i \in 1..(Len(s) - Len(p) + 1) : SubSeq(s, i, i + Len(p) - 1) = p})

Letters == {"a", "b", "h", "p", "s", "t", "u", "x"}
SchemePunct == {"+", "-", "."}

-----------------------------------------------------------------------------
(* net/url as used by isURL, databaseFromURL and http.NewRequestWithContext. *)
(* The alphabet of the model has no digits, '@', '[', '%', '#' or control  *)
(* bytes, so user info, IPv6 literals, escapes and fragments do not occur. *)

RECURSIVE getSchemeAt(_, _)
getSchemeAt(rawURL, i) ==
    IF i > Len(rawURL) THEN [err |-> FALSE, scheme |-> <<>>, rest |-> rawURL]
    ELSE LET c == rawURL[i] IN
         IF c \in Letters THEN getSchemeAt(rawURL, i + 1)
         ELSE IF c \in SchemePunct
              THEN IF i = 1 THEN [err |-> FALSE, scheme |-> <<>>, rest |-> rawURL]
                   ELSE getSchemeAt(rawURL, i + 1)
         ELSE IF c = ":"
              THEN IF i = 1 THEN [err |-> TRUE, scheme |-> <<>>, rest |-> <<>>]
                   ELSE [err |-> FALSE, scheme |-> SubSeq(rawURL, 1, i - 1),
                         rest |-> SubSeq(rawURL, i + 1, Len(rawURL))]
         ELSE [err |-> FALSE, scheme |-> <<>>, rest |-> rawURL]

getScheme(rawURL) == getSchemeAt(rawURL, 1)

\* validOptionalPort: "" or ":" followed by digits (the model has no digits)
validOptionalPort(port) == port = <<>> \/ port = <<":">>

\* parseHost of an authority without '[': the text after the last ':' must be a port
parseHostOk(host) ==
    LET i == LastIndexByte(host, ":") IN
    i = 0 \/ validOptionalPort(SubSeq(host, i, Len(host)))

UrlError == [ok |-> FALSE, Scheme |-> <<>>, Opaque |-> <<>>, Host |-> <<>>, Path |-> <<>>]

\* url.parse(rawURL, viaRequest)
parse(rawURL, viaRequest) ==
    IF rawURL = <<>> /\ viaRequest THEN UrlError
    ELSE LET gs == getScheme(rawURL) IN
    IF gs.err THEN UrlError
    ELSE LET q == IndexByte(gs.rest, "?")
             rest == IF q = 0 THEN gs.rest ELSE SubSeq(gs.rest, 1, q - 1)
         IN
    IF ~HasPrefix(rest, <<"/">>)
    THEN IF gs.scheme # <<>>
         THEN [ok |-> TRUE, Scheme |-> gs.scheme, Opaque |-> rest,
               Host |-> <<>>, Path |-> <<>>]
         ELSE IF viaRequest THEN UrlError
         ELSE LET sl == IndexByte(rest, "/")
                  segment == IF sl = 0 THEN rest ELSE SubSeq(rest, 1, sl - 1)
              IN IF IndexByte(segment, ":") # 0 THEN UrlError
                 ELSE [ok |-> TRUE, Scheme |-> <<>>, Opaque |-> <<>>,
                       Host |-> <<>>, Path |-> rest]
    ELSE IF /\ (gs.scheme # <<>> \/ (~viaRequest /\ ~HasPrefix(rest, <<"/", "/", "/">>)))
            /\ HasPrefix(rest, <<"/", "/">>)
         THEN LET after == SubSeq(rest, 3, Len(rest))
                  sl == IndexByte(after, "/")
                  authority == IF sl = 0 THEN after ELSE SubSeq(after, 1, sl - 1)
                  path == IF sl = 0 THEN <<>> ELSE SubSeq(after, sl, Len(after))
              IN IF ~parseHostOk(authority) THEN UrlError
                 ELSE [ok |-> TRUE, Scheme |-> gs.scheme, Opaque |-> <<>>,
                       Host |-> authority, Path |-> path]
         ELSE [ok |-> TRUE, Scheme |-> gs.scheme, Opaque |-> <<>>,
               Host |-> <<>>, Path |-> rest]

ParseRequestURI(rawURL) == parse(rawURL, TRUE)

\* url.Parse, which http.NewRequestWithContext applies to its url argument
UrlParse(rawURL) == parse(rawURL, FALSE)

\* (*URL).Hostname: Host without its port
Hostname(u) ==
    LET colon == IndexByte(u.Host, ":") IN
    IF colon = 0 THEN u.Host ELSE SubSeq(u.Host, 1, colon - 1)

isURL(s) == ParseRequestURI(s).ok

-----------------------------------------------------------------------------
(* Inputs: references, directory listings, SQL arguments, tokens *)

RefChars == {"a", ".", ":"}
RefBodies ==
    {<<>>} \cup {<<c>> : c \in RefChars} \cup {<<c, d>> : c, d \in RefChars}
RefPrefixes == {<<>>, <<"/">>, <<"s", ":">>, <<"s", ":", "/", "/">>}
\* values of args[0]: bare names, absolute paths, opaque and hierarchical URLs
Refs == {p \o b : p \in RefPrefixes, b \in RefBodies}

DbNames == {<<"a">>, <<"a", "a">>, <<"b">>}
DbHostnames == {<<"a">>, <<".", "a">>, <<"a", "a">>}
\* turso.Database, the fields the shell command reads
DbPool == [Name : DbNames, Hostname : DbHostnames]
NilDb == [Name |-> <<>>, Hostname |-> <<>>]

\* listings: names and hostnames are unique within an account
Dirs ==
    {d \in UNION {[1..n -> DbPool] : n \in 0..MaxDbs} :
        \A i, j \in 1..Len(d) :
            i # j => d[i].Name # d[j].Name /\ d[i].Hostname # d[j].Hostname}

\* values of args[1]: empty, two statements, an unterminated quote
SqlArgs == {<<>>, <<"a", ";", "b", "b">>, <<"'", "a">>}
ArgLists == {<<r>> : r \in Refs} \cup {<<r, q>> : r \in Refs, q \in SqlArgs}

Tokens == {<<"t">>, <<"u">>}

NoConfig == [DbPath |-> <<>>, set |-> FALSE]

-----------------------------------------------------------------------------
(* prompt.Spinner: Start and Stop act on the running flag only *)

SpinnerStart ==
    /\ spinnerActive' = TRUE
    /\ startCalls' = startCalls + 1

SpinnerStop ==
    /\ spinnerActive' = FALSE
    /\ stopCalls' = stopCalls + 1
    /\ stopEffects' = stopEffects + (IF spinnerActive THEN 1 ELSE 0)

SpinnerIdle == UNCHANGED <<spinnerActive, startCalls, stopCalls, stopEffects>>

\* a return of RunE: the result, then the deferred spinner.Stop() if registered
Return(result) ==
    /\ pc' = "done"
    /\ outcome' = result
    /\ IF deferStop
       THEN SpinnerStop /\ startCalls' = startCalls
       ELSE SpinnerIdle

-----------------------------------------------------------------------------
(* db shell: helpers *)

\* mutant of databaseFromNameOrURL: a name that is not found falls back to
\* hostname-suffix matching
M_databaseFromNameOrURL_Suffix(str, list) ==
    LET hit(i) == HasSuffix(str, list[i].Hostname) IN
    IF \E i \in 1..Len(list) : list[i].Name = str
    THEN [err |-> FALSE, via |-> "name",
          db |-> list[CHOOSE i \in 1..Len(list) : list[i].Name = str]]
    ELSE IF \E i \in 1..Len(list) : hit(i)
    THEN [err |-> FALSE, via |-> IF isURL(str) THEN "url" ELSE "name",
          db |-> list[CHOOSE i \in 1..Len(list) :
                        hit(i) /\ \A j \in 1..(i - 1) : ~hit(j)]]
    ELSE [err |-> ~isURL(str), via |-> IF isURL(str) THEN "url" ELSE "name",
          db |-> NilDb]

\* mutant of databaseFromURL: the last matching entry instead of the first
M_databaseFromURL_Last(dbURL, list) ==
    LET parsed == ParseRequestURI(dbURL)
        hit(i) == HasSuffix(Hostname(parsed), list[i].Hostname)
    IN IF ~parsed.ok THEN [err |-> TRUE, via |-> "url", db |-> NilDb]
       ELSE IF \E i \in 1..Len(list) : hit(i)
       THEN [err |-> FALSE, via |-> "url",
             db |-> list[CHOOSE i \in 1..Len(list) :
                           hit(i) /\ \A j \in (i + 1)..Len(list) : ~hit(j)]]
       ELSE [err |-> FALSE, via |-> "url", db |-> NilDb]

\* mutant of tokenFromDb: a token is requested for a nil database too
M_tokenFromDb_Always(d) ==
    <<[name |-> d.Name, expiration |-> "1d", readOnly |-> FALSE]>>

\* mutant of tokenFromDb: a read-only token
M_tokenFromDb_ReadOnly(d) ==
    IF d = NilDb THEN <<>>
    ELSE <<[name |-> d.Name, expiration |-> "1d", readOnly |-> TRUE]>>

\* mutant of addTokenAsQueryParameter: the parameter is appended twice
M_addToken_Twice(dbUrl, tok) ==
    dbUrl \o <<"?", "j", "w", "t", "=">> \o tok \o <<"?", "j", "w", "t", "=">> \o tok

\* getDatabase(client, name): the listed database of exactly that name
getDatabase(list, name) ==
    IF \E i \in 1..Len(list) : list[i].Name = name
    THEN [err |-> FALSE, via |-> "name",
          db |-> list[CHOOSE i \in 1..Len(list) :
                        /\ list[i].Name = name
                        /\ \A j \in 1..(i - 1) : list[j].Name # name]]
    ELSE [err |-> TRUE, via |-> "name", db |-> NilDb]

\* databaseFromURL after a successful List: first entry whose Hostname is a
\* suffix of the URL's hostname, nil when there is none
databaseFromURL(dbURL, list) ==
    LET parsed == ParseRequestURI(dbURL)
        hit(i) == HasSuffix(Hostname(parsed), list[i].Hostname)
    IN IF ~parsed.ok THEN [err |-> TRUE, via |-> "url", db |-> NilDb]
       ELSE IF \E i \in 1..Len(list) : hit(i)
       THEN [err |-> FALSE, via |-> "url",
             db |-> list[CHOOSE i \in 1..Len(list) :
                           hit(i) /\ \A j \in 1..(i - 1) : ~hit(j)]]
       ELSE [err |-> FALSE, via |-> "url", db |-> NilDb]

databaseFromNameOrURL(str, list) ==
    IF isURL(str) THEN databaseFromURL(str, list) ELSE getDatabase(list, str)

\* tokenFromDb: the request it makes, none for a nil database
tokenFromDb(d) ==
    IF d = NilDb THEN <<>>
    ELSE <<[name |-> d.Name, expiration |-> "1d", readOnly |-> FALSE]>>

\* getDatabaseHttpUrl(config, db)
getDatabaseHttpUrl(d) == <<"h", "t", "t", "p", "s", ":", "/", "/">> \o d.Hostname

addTokenAsQueryParameter(dbUrl, tok) == dbUrl \o <<"?", "j", "w", "t", "=">> \o tok

nameOrUrl == args[1]

-----------------------------------------------------------------------------
(* db shell: shellCmd.RunE, one action per step between external calls *)

\* lines 34-44: the empty-name check, the spinner, Start and the deferred Stop
\* mutant of RunE_Start: the spinner is started whatever the number of arguments
M_RunE_Start_Always ==
    /\ pc = "start"
    /\ IF nameOrUrl = <<>>
       THEN /\ Return("err_name")
            /\ UNCHANGED deferStop
       ELSE /\ pc' = "client"
            /\ SpinnerStart
            /\ UNCHANGED <<stopCalls, stopEffects>>
            /\ deferStop' = (Len(args) = 1)
            /\ UNCHANGED outcome
    /\ UNCHANGED <<args, dbs, route, db, token, shellConfig, calls, tokenReqs,
                   callbackCalls, lines>>
    /\ UNCHANGED <<queryVars, createVars>>

RunE_Start ==
    /\ pc = "start"
    /\ IF nameOrUrl = <<>>
       THEN /\ Return("err_name")
            /\ UNCHANGED deferStop
       ELSE /\ pc' = "client"
            /\ IF Len(args) = 1
               THEN /\ SpinnerStart
                    /\ UNCHANGED <<stopCalls, stopEffects>>
                    /\ deferStop' = TRUE
               ELSE SpinnerIdle /\ UNCHANGED deferStop
            /\ UNCHANGED outcome
    /\ UNCHANGED <<args, dbs, route, db, token, shellConfig, calls, tokenReqs,
                   callbackCalls, lines>>
    /\ UNCHANGED <<queryVars, createVars>>

\* lines 46-49: createTursoClientFromAccessToken
RunE_Client ==
    /\ pc = "client"
    /\ calls' = Append(calls, "createClient")
    /\ \E ok \in BOOLEAN :
        IF ok THEN pc' = "settings" /\ SpinnerIdle /\ UNCHANGED outcome
              ELSE Return("err_client")
    /\ UNCHANGED <<args, dbs, deferStop, route, db, token, shellConfig, tokenReqs,
                   callbackCalls, lines>>
    /\ UNCHANGED <<queryVars, createVars>>

\* lines 51-54: settings.ReadSettings
RunE_Settings ==
    /\ pc = "settings"
    /\ calls' = Append(calls, "readSettings")
    /\ \E ok \in BOOLEAN :
        IF ok THEN pc' = "resolve" /\ SpinnerIdle /\ UNCHANGED outcome
              ELSE Return("err_settings")
    /\ UNCHANGED <<args, dbs, deferStop, route, db, token, shellConfig, tokenReqs,
                   callbackCalls, lines>>
    /\ UNCHANGED <<queryVars, createVars>>

\* mutant of RunE_Resolve: the resolution error is noted but RunE goes on
M_RunE_Resolve_NoReturn ==
    /\ pc = "resolve"
    /\ calls' = Append(calls, "List")
    /\ LET r == databaseFromNameOrURL(nameOrUrl, dbs) IN
       /\ route' = r.via
       /\ db' = r.db
       /\ pc' = "token"
       /\ outcome' = IF r.err THEN "err_notfound" ELSE outcome
       /\ SpinnerIdle
    /\ UNCHANGED <<args, dbs, deferStop, token, shellConfig, tokenReqs,
                   callbackCalls, lines>>
    /\ UNCHANGED <<queryVars, createVars>>

\* lines 56-59: databaseFromNameOrURL; databaseFromURL lists the directory
\* (line 147) and so does the name lookup of getDatabase
RunE_Resolve ==
    /\ pc = "resolve"
    /\ calls' = Append(calls, "List")
    /\ LET r == databaseFromNameOrURL(nameOrUrl, dbs) IN
       /\ route' = r.via
       /\ \E listOk \in BOOLEAN :
            IF ~listOk
            THEN Return("err_list") /\ UNCHANGED db
            ELSE IF r.err
                 THEN Return("err_notfound") /\ UNCHANGED db
                 ELSE /\ db' = r.db
                      /\ pc' = "token"
                      /\ SpinnerIdle
                      /\ UNCHANGED outcome
    /\ UNCHANGED <<args, dbs, deferStop, token, shellConfig, tokenReqs,
                   callbackCalls, lines>>
    /\ UNCHANGED <<queryVars, createVars>>

\* lines 61-64: tokenFromDb
RunE_Token ==
    /\ pc = "token"
    /\ LET req == tokenFromDb(db) IN
       IF req = <<>>
       THEN /\ token' = <<>>
            /\ pc' = "build"
            /\ SpinnerIdle
            /\ UNCHANGED <<calls, tokenReqs, outcome>>
       ELSE /\ calls' = Append(calls, "Token")
            /\ tokenReqs' = tokenReqs \o req
            /\ \/ \E t \in Tokens :
                    /\ token' = t
                    /\ pc' = "build"
                    /\ SpinnerIdle
                    /\ UNCHANGED outcome
               \/ Return("err_token") /\ UNCHANGED token
    /\ UNCHANGED <<args, dbs, deferStop, route, db, shellConfig, callbackCalls, lines>>
    /\ UNCHANGED <<queryVars, createVars>>

\* lines 66-94: the endpoint, the shell configuration, and the mode
\* mutant of RunE_Shell: an empty SQL argument is handed to RunShellLine
M_RunE_Shell_NoEmptyCheck ==
    /\ pc = "build"
    /\ LET dbUrl == IF db # NilDb
                    THEN addTokenAsQueryParameter(getDatabaseHttpUrl(db), token)
                    ELSE nameOrUrl
       IN /\ shellConfig' = [DbPath |-> dbUrl, set |-> TRUE]
          /\ calls' = Append(calls, IF Len(args) = 2 THEN "RunShellLine" ELSE "RunShell")
          /\ pc' = "connect"
          /\ SpinnerIdle
          /\ UNCHANGED outcome
    /\ UNCHANGED <<args, dbs, deferStop, route, db, token, tokenReqs, callbackCalls, lines>>
    /\ UNCHANGED <<queryVars, createVars>>

\* mutant of RunE_Shell: after RunShellLine the command falls through to RunShell
M_RunE_Shell_FallThrough ==
    /\ pc = "build"
    /\ LET dbUrl == IF db # NilDb
                    THEN addTokenAsQueryParameter(getDatabaseHttpUrl(db), token)
                    ELSE nameOrUrl
       IN IF Len(args) = 2 /\ Len(args[2]) = 0
          THEN /\ Return("err_nosql")
               /\ UNCHANGED <<shellConfig, calls>>
          ELSE /\ shellConfig' = [DbPath |-> dbUrl, set |-> TRUE]
               /\ calls' = calls \o (IF Len(args) = 2 THEN <<"RunShellLine">> ELSE <<>>)
                                 \o <<"RunShell">>
               /\ pc' = "connect"
               /\ SpinnerIdle
               /\ UNCHANGED outcome
    /\ UNCHANGED <<args, dbs, deferStop, route, db, token, tokenReqs, callbackCalls, lines>>
    /\ UNCHANGED <<queryVars, createVars>>

RunE_Shell ==
    /\ pc = "build"
    /\ LET dbUrl == IF db # NilDb
                    THEN addTokenAsQueryParameter(getDatabaseHttpUrl(db), token)
                    ELSE nameOrUrl
       IN IF Len(args) = 2
          THEN IF Len(args[2]) = 0
               THEN /\ Return("err_nosql")
                    /\ UNCHANGED <<shellConfig, calls>>
               ELSE /\ shellConfig' = [DbPath |-> dbUrl, set |-> TRUE]
                    /\ calls' = Append(calls, "RunShellLine")
                    /\ pc' = "connect"
                    /\ SpinnerIdle
                    /\ UNCHANGED outcome
          ELSE /\ shellConfig' = [DbPath |-> dbUrl, set |-> TRUE]
               /\ calls' = Append(calls, "RunShell")
               /\ pc' = "connect"
               /\ SpinnerIdle
               /\ UNCHANGED outcome
    /\ UNCHANGED <<args, dbs, deferStop, route, db, token, tokenReqs, callbackCalls, lines>>
    /\ UNCHANGED <<queryVars, createVars>>

\* mutant of AfterDbConnectionCallback: the callback does not stop the spinner
M_Callback_NoStop ==
    /\ SpinnerIdle
    /\ callbackCalls' = callbackCalls + 1

\* lines 82-84: AfterDbConnectionCallback
AfterDbConnectionCallback ==
    /\ SpinnerStop
    /\ UNCHANGED startCalls
    /\ callbackCalls' = callbackCalls + 1

\* the shell opens the database: on success it invokes the callback once,
\* on failure RunShell / RunShellLine returns the error
Shell_Connect ==
    /\ pc = "connect"
    /\ \/ /\ AfterDbConnectionCallback
          /\ pc' = "session"
          /\ UNCHANGED outcome
       \/ /\ Return("err_shell")
          /\ UNCHANGED callbackCalls
    /\ UNCHANGED <<args, dbs, deferStop, route, db, token, shellConfig, calls,
                   tokenReqs, lines>>
    /\ UNCHANGED <<queryVars, createVars>>

\* RunShellLine executes the supplied line and returns; the command returns
Shell_Line ==
    /\ pc = "session"
    /\ Len(args) = 2
    /\ lines' = lines + 1
    /\ \E ok \in BOOLEAN : Return(IF ok THEN "ok" ELSE "err_shell")
    /\ UNCHANGED <<args, dbs, deferStop, route, db, token, shellConfig, calls,
                   tokenReqs, callbackCalls>>
    /\ UNCHANGED <<queryVars, createVars>>

\* RunShell executes one more line of the interactive loop
Shell_Exec ==
    /\ pc = "session"
    /\ Len(args) = 1
    /\ lines < MaxLines
    /\ lines' = lines + 1
    /\ UNCHANGED <<args, dbs, pc, spinnerActive, startCalls, stopCalls,
                   stopEffects, deferStop, route, db, token, shellConfig, calls,
                   tokenReqs, callbackCalls, outcome>>
    /\ UNCHANGED <<queryVars, createVars>>

\* RunShell ends on .quit or end of input; the command returns
Shell_Quit ==
    /\ pc = "session"
    /\ Len(args) = 1
    /\ Return("ok")
    /\ UNCHANGED <<args, dbs, deferStop, route, db, token, shellConfig, calls,
                   tokenReqs, callbackCalls, lines>>
    /\ UNCHANGED <<queryVars, createVars>>

InitQueryIdle ==
    /\ qUrl = <<>> /\ qToken = <<>> /\ qStmt = <<>>
    /\ qPc = "idle" /\ posts = <<>> /\ qResult = "none"

\* createCmd.RunE is not running
InitCreateIdle ==
    /\ cArgs = <<>> /\ locationFlag = "" /\ canaryFlag = FALSE /\ fromFileFlag = ""
    /\ cPc = "done" /\ cName = "" /\ region = "" /\ dbFile = "nil"
    /\ barActive = FALSE /\ remoteDbs = {} /\ remoteInstances = {}
    /\ cCalls = <<>> /\ settingsOps = <<>> /\ cOutcome = "none"

\* the state when RunE is entered with one of the argument lists
InitShellFrom(argLists) ==
    /\ args \in argLists
    /\ dbs \in Dirs
    /\ pc = "start"
    /\ spinnerActive = FALSE
    /\ startCalls = 0 /\ stopCalls = 0 /\ stopEffects = 0
    /\ deferStop = FALSE
    /\ route = "none"
    /\ db = NilDb
    /\ token = <<>>
    /\ shellConfig = NoConfig
    /\ calls = <<>>
    /\ tokenReqs = <<>>
    /\ callbackCalls = 0
    /\ lines = 0
    /\ outcome = "none"

Init == InitShellFrom(ArgLists) /\ InitQueryIdle /\ InitCreateIdle

Next ==
    \/ RunE_Start \/ RunE_Client \/ RunE_Settings \/ RunE_Resolve
    \/ RunE_Token \/ RunE_Shell
    \/ Shell_Connect \/ Shell_Line \/ Shell_Exec \/ Shell_Quit

Spec == Init /\ [][Next]_vars

-----------------------------------------------------------------------------
(* Statement splitter: sqlparser.SplitStatementToPieces, by its contract.  *)
(* ';' separates statements outside quotes and comments; comments are not  *)
(* part of a statement; a segment with nothing but white space is dropped; *)
(* an unterminated quote or block comment is an error.                     *)

WhiteSpace == {" ", "\n"}

\* s without leading and trailing white space
Trim(s) ==
    LET keep == {i \in 1..Len(s) : s[i] \notin WhiteSpace} IN
    IF keep = {} THEN <<>>
    ELSE SubSeq(s, CHOOSE i \in keep : \A j \in keep : i <= j,
                   CHOOSE i \in keep : \A j \in keep : j <= i)

\* the statements so far, with the segment cur closed
Flush(pieces, cur) ==
    IF Trim(cur) = <<>> THEN pieces ELSE Append(pieces, Trim(cur))

\* scan blob from position i; mode is "sql", "quote", "line" or "block"
RECURSIVE splitFrom(_, _, _, _, _)
splitFrom(blob, i, mode, cur, pieces) ==
    IF i > Len(blob)
    THEN IF mode \in {"quote", "block"}
         THEN [err |-> TRUE, pieces |-> <<>>]
         ELSE [err |-> FALSE, pieces |-> Flush(pieces, cur)]
    ELSE LET c == blob[i]
             two == IF i < Len(blob) THEN <<c, blob[i + 1]>> ELSE <<c>>
         IN
         CASE mode = "quote" ->
                splitFrom(blob, i + 1, IF c = "'" THEN "sql" ELSE "quote",
                          Append(cur, c), pieces)
           [] mode = "line" ->
                IF c = "\n" THEN splitFrom(blob, i + 1, "sql", Append(cur, c), pieces)
                ELSE splitFrom(blob, i + 1, "line", cur, pieces)
           [] mode = "block" ->
                IF two = <<"*", "/">>
                THEN splitFrom(blob, i + 2, "sql", Append(cur, " "), pieces)
                ELSE splitFrom(blob, i + 1, "block", cur, pieces)
           [] OTHER ->
                IF c = ";" THEN splitFrom(blob, i + 1, "sql", <<>>, Flush(pieces, cur))
                ELSE IF c = "'" THEN splitFrom(blob, i + 1, "quote", Append(cur, c), pieces)
                ELSE IF two = <<"-", "-">> THEN splitFrom(blob, i + 2, "line", cur, pieces)
                ELSE IF two = <<"/", "*">> THEN splitFrom(blob, i + 2, "block", cur, pieces)
                ELSE splitFrom(blob, i + 1, "sql", Append(cur, c), pieces)

\* mutant of SplitStatementToPieces: every ';' separates, and nothing is dropped
RECURSIVE naiveSplitFrom(_, _, _, _)
naiveSplitFrom(blob, i, cur, pieces) ==
    IF i > Len(blob) THEN [err |-> FALSE, pieces |-> Append(pieces, cur)]
    ELSE IF blob[i] = ";" THEN naiveSplitFrom(blob, i + 1, <<>>, Append(pieces, cur))
    ELSE naiveSplitFrom(blob, i + 1, Append(cur, blob[i]), pieces)

M_Split_EverySemicolon(blob) == naiveSplitFrom(blob, 1, <<>>, <<>>)

SplitStatementToPieces(blob) == splitFrom(blob, 1, "sql", <<>>, <<>>)

-----------------------------------------------------------------------------
(* doQueryContext(ctx, url, token, stmt) *)

SqlFragments ==
    {<<"a">>, <<"b", "b">>, <<";">>, <<" ">>, <<"'">>, <<"'", ";", "'">>,
     <<"-", "-", ";", "\n">>, <<"/", "*", ";", "*", "/">>, <<"/", "*">>}

RECURSIVE Concat(_)
Concat(fs) == IF fs = <<>> THEN <<>> ELSE Head(fs) \o Concat(Tail(fs))

\* "a; --;\nbb;": two statements around a line comment that holds a ';'
SqlScenarios == {<<"a", ";", " ", "-", "-", ";", "\n", "b", "b", ";">>}

\* values of stmt
SqlTexts ==
    {Concat(fs) : fs \in UNION {[1..n -> SqlFragments] : n \in 0..MaxFrags}}
        \cup SqlScenarios

\* values of url: two endpoints, and two strings url.Parse rejects
QueryUrls ==
    {<<"s", ":", "/", "/", "a">>,
     <<"s", ":", "/", "/", "a", "?", "j", "w", "t", "=", "t">>,
     <<":">>,
     <<"s", ":", "/", "/", ":", "a">>}

\* values of token
QueryTokens == {<<>>, <<"t">>}

Bearer == <<"B", "e", "a", "r", "e", "r", " ">>

\* the request of lines 199-212: one POST with every statement in its body,
\* and the Authorization header when the token is not empty
QueryRequest(url, tok, stmts) ==
    [method |-> "POST",
     url |-> url,
     body |-> [statements |-> stmts],
     header |-> IF tok # <<>>
                THEN <<[key |-> "Authorization", value |-> Bearer \o tok]>>
                ELSE <<>>]

\* mutant of QueryRequest: the Authorization header is added for any token
M_QueryRequest_AlwaysAuth(url, tok, stmts) ==
    [method |-> "POST",
     url |-> url,
     body |-> [statements |-> stmts],
     header |-> <<[key |-> "Authorization", value |-> Bearer \o tok]>>]

\* mutant of DoQuery_SplitError: the request is sent before the error is seen
M_DoQuery_SplitError_Sends ==
    /\ qPc = "call"
    /\ SplitStatementToPieces(qStmt).err
    /\ posts' = Append(posts, QueryRequest(qUrl, qToken, <<>>))
    /\ qResult' = "err_split"
    /\ qPc' = "done"
    /\ UNCHANGED <<qUrl, qToken, qStmt>>
    /\ UNCHANGED <<shellVars, createVars>>

\* lines 195-198: the split failed, the error is returned
DoQuery_SplitError ==
    /\ qPc = "call"
    /\ SplitStatementToPieces(qStmt).err
    /\ qResult' = "err_split"
    /\ qPc' = "done"
    /\ UNCHANGED <<qUrl, qToken, qStmt, posts>>
    /\ UNCHANGED <<shellVars, createVars>>

\* lines 206-209: http.NewRequestWithContext rejects the url
DoQuery_RequestError ==
    /\ qPc = "call"
    /\ ~SplitStatementToPieces(qStmt).err
    /\ ~UrlParse(qUrl).ok
    /\ qResult' = "err_request"
    /\ qPc' = "done"
    /\ UNCHANGED <<qUrl, qToken, qStmt, posts>>
    /\ UNCHANGED <<shellVars, createVars>>

\* mutant of DoQuery_Send: one request per statement
M_DoQuery_Send_PerStatement ==
    /\ qPc = "call"
    /\ ~SplitStatementToPieces(qStmt).err
    /\ UrlParse(qUrl).ok
    /\ LET st == SplitStatementToPieces(qStmt).pieces IN
       posts' = posts \o [i \in 1..Len(st) |-> QueryRequest(qUrl, qToken, <<st[i]>>)]
    /\ qResult' \in {"response", "err_transport"}
    /\ qPc' = "done"
    /\ UNCHANGED <<qUrl, qToken, qStmt>>
    /\ UNCHANGED <<shellVars, createVars>>

\* lines 199-213: the request is built and handed to http.DefaultClient.Do,
\* which answers or fails
DoQuery_Send ==
    /\ qPc = "call"
    /\ ~SplitStatementToPieces(qStmt).err
    /\ UrlParse(qUrl).ok
    /\ posts' = Append(posts, QueryRequest(qUrl, qToken,
                                           SplitStatementToPieces(qStmt).pieces))
    /\ qResult' \in {"response", "err_transport"}
    /\ qPc' = "done"
    /\ UNCHANGED <<qUrl, qToken, qStmt>>
    /\ UNCHANGED <<shellVars, createVars>>

InitShellIdle ==
    /\ args = <<<<"a">>>> /\ dbs = <<>> /\ pc = "done"
    /\ spinnerActive = FALSE
    /\ startCalls = 0 /\ stopCalls = 0 /\ stopEffects = 0
    /\ deferStop = FALSE /\ route = "none" /\ db = NilDb /\ token = <<>>
    /\ shellConfig = NoConfig /\ calls = <<>> /\ tokenReqs = <<>>
    /\ callbackCalls = 0 /\ lines = 0 /\ outcome = "none"

InitQuery ==
    /\ InitShellIdle
    /\ InitCreateIdle
    /\ qUrl \in QueryUrls
    /\ qToken \in QueryTokens
    /\ qStmt \in SqlTexts
    /\ qPc = "call"
    /\ posts = <<>>
    /\ qResult = "none"

NextQuery == DoQuery_SplitError \/ DoQuery_RequestError \/ DoQuery_Send

SpecQuery == InitQuery /\ [][NextQuery]_vars

-----------------------------------------------------------------------------
(* A session whose lines go through doQueryContext: the shell hands each    *)
(* line, with the endpoint of its configuration, to the statement splitter  *)
(* and the query dispatcher.                                                *)

\* references of the sessions: a name, two URLs, and a path url.Parse rejects
SessionRefs ==
    {<<"a">>, <<"s", ":", "/", "/", "a">>, <<"s", ":", "/", "/", ".">>,
     <<"/", "/", ":", "a">>}
SessionArgLists ==
    {<<r>> : r \in SessionRefs} \cup {<<r, q>> : r \in SessionRefs, q \in SqlArgs}

\* the shell dispatches its next line
Session_Dispatch ==
    /\ pc = "session"
    /\ lines < (IF Len(args) = 2 THEN 1 ELSE MaxLines)
    /\ qStmt' \in (IF Len(args) = 2 THEN {args[2]} ELSE SqlArgs \ {<<>>})
    /\ qUrl' = shellConfig.DbPath
    /\ qToken' = <<>>
    /\ qPc' = "call"
    /\ qResult' = "none"
    /\ lines' = lines + 1
    /\ pc' = "dispatch"
    /\ UNCHANGED <<args, dbs, spinnerActive, startCalls, stopCalls, stopEffects,
                   deferStop, route, db, token, shellConfig, calls, tokenReqs,
                   callbackCalls, outcome, posts>>
    /\ UNCHANGED createVars

\* the dispatcher has returned: RunShellLine returns its result, RunShell
\* shows it and reads on
Session_Result ==
    /\ pc = "dispatch"
    /\ qPc = "done"
    /\ IF Len(args) = 2
       THEN Return(IF qResult = "response" THEN "ok" ELSE "err_shell")
       ELSE pc' = "session" /\ SpinnerIdle /\ UNCHANGED outcome
    /\ UNCHANGED <<args, dbs, deferStop, route, db, token, shellConfig, calls,
                   tokenReqs, callbackCalls, lines>>
    /\ UNCHANGED <<queryVars, createVars>>

InitSession == InitShellFrom(SessionArgLists) /\ InitQueryIdle /\ InitCreateIdle

NextSession ==
    \/ RunE_Start \/ RunE_Client \/ RunE_Settings \/ RunE_Resolve
    \/ RunE_Token \/ RunE_Shell \/ Shell_Connect
    \/ Session_Dispatch \/ Session_Result \/ Shell_Quit
    \/ DoQuery_SplitError \/ DoQuery_RequestError \/ DoQuery_Send

SpecSession == InitSession /\ [][NextSession]_vars

-----------------------------------------------------------------------------
(* Properties of db shell *)

Jwt == <<"?", "j", "w", "t", "=">>

\* position of the first call named c in the call log, 0 when absent
CallAt(c) == IndexByte(calls, c)

\* databaseFromNameOrURL has returned without error
ResolvedOk ==
    \/ pc \in {"token", "build", "connect", "session"}
    \/ pc = "done" /\ outcome \in {"ok", "err_token", "err_nosql", "err_shell"}

\* indices of the listed databases whose Hostname is a suffix of the host of
\* the reference read as a URL
SuffixMatches ==
    {i \in 1..Len(dbs) :
        HasSuffix(Hostname(ParseRequestURI(nameOrUrl)), dbs[i].Hostname)}

\* C1 as claimed: when the command has returned, spinner.Stop() has been
\* triggered exactly once.
C1_StopExactlyOnce == pc = "done" => stopCalls = 1

\* C1 as amended: the indicator is started only in interactive mode and then
\* goes from running to stopped exactly once, so it never runs after the
\* command has returned; spinner.Stop() is called once by the connected
\* callback (at most once) and once more by the deferred stop of interactive
\* mode, so twice in an interactive invocation that connected and never in a
\* single-shot invocation that failed before connecting.
C1_StopCalls ==
    /\ callbackCalls <= 1
    /\ stopCalls = callbackCalls + (IF pc = "done" /\ deferStop THEN 1 ELSE 0)
    /\ deferStop = (startCalls = 1) /\ startCalls <= 1
    /\ (startCalls = 1) = (Len(args) = 1 /\ nameOrUrl # <<>> /\ pc # "start")
    /\ stopEffects <= startCalls
    /\ (pc = "done" => ~spinnerActive /\ stopEffects = startCalls)

C1_Witness == pc = "done" /\ stopCalls = 2 /\ stopEffects = 1 /\ lines = MaxLines

C3_TokenOnlyOnSuffixMatch ==
    route = "url" =>
        /\ tokenReqs # <<>> => SuffixMatches # {}
        /\ SuffixMatches = {} =>
              /\ tokenReqs = <<>> /\ CallAt("Token") = 0 /\ token = <<>>
              /\ shellConfig.set => shellConfig.DbPath = nameOrUrl

C3_Witness ==
    /\ route = "url" /\ SuffixMatches = {} /\ Len(dbs) = MaxDbs
    /\ ParseRequestURI(nameOrUrl).Host # <<>>
    /\ shellConfig.set /\ lines > 0

\* C4: a reference that fails URL parsing is looked up by exact name only: a
\* database is resolved only if it is listed under exactly that name, and when
\* the listing holds no such name the command ends with the not-found error,
\* without a token request and without starting the shell.
C4_NameLookupOnly ==
    route = "name" =>
        /\ ~isURL(nameOrUrl)
        /\ db # NilDb => db.Name = nameOrUrl /\ \E i \in 1..Len(dbs) : dbs[i] = db
        /\ (\A i \in 1..Len(dbs) : dbs[i].Name # nameOrUrl) =>
              /\ pc = "done" /\ outcome \in {"err_notfound", "err_list"}
              /\ db = NilDb /\ tokenReqs = <<>> /\ ~shellConfig.set
              /\ callbackCalls = 0 /\ lines = 0

C4_Witness ==
    /\ route = "name" /\ outcome = "err_notfound"
    /\ \E i \in 1..Len(dbs) : HasSuffix(nameOrUrl, dbs[i].Hostname)

\* C5 as claimed: a reference is routed to suffix matching only if it parses
\* with a scheme and a non-empty host.
C5_UrlNeedsSchemeAndHost ==
    route = "url" =>
        /\ ParseRequestURI(nameOrUrl).Scheme # <<>>
        /\ ParseRequestURI(nameOrUrl).Host # <<>>

\* C6: for a URL reference and a listing, the resolved database is the first
\* listed entry whose Hostname is a suffix of the URL's host, and with no such
\* entry resolution succeeds with no database.
C6_FirstSuffixMatch ==
    route = "url" /\ pc # "resolve" /\ outcome # "err_list" =>
        /\ ResolvedOk
        /\ IF SuffixMatches = {} THEN db = NilDb
           ELSE \E i \in SuffixMatches :
                    db = dbs[i] /\ \A j \in 1..(i - 1) : j \notin SuffixMatches

C6_Witness ==
    /\ route = "url" /\ ResolvedOk
    /\ SuffixMatches = {1, 2} /\ db = dbs[1] /\ db # dbs[2]

\* C8: when client creation, the settings read, resolution or token issuance
\* fails, the command has ended with that error, the failing call is the last
\* call made, the shell was never started and the callback never invoked.
C8_FailureSkipsConnected ==
    outcome \in {"err_client", "err_settings", "err_list", "err_notfound",
                 "err_token"} =>
        /\ pc = "done"
        /\ ~shellConfig.set /\ callbackCalls = 0 /\ lines = 0
        /\ calls = CASE outcome = "err_client" -> <<"createClient">>
                     [] outcome = "err_settings" -> <<"createClient", "readSettings">>
                     [] outcome = "err_token" ->
                            <<"createClient", "readSettings", "List", "Token">>
                     [] OTHER -> <<"createClient", "readSettings", "List">>
        /\ outcome # "err_token" => tokenReqs = <<>>

C8_Witness == outcome = "err_notfound" /\ Len(dbs) = MaxDbs /\ Len(args) = 2

\* C9: at most one token is ever requested in an invocation, for one day and
\* not read-only, and once the shell has been started no step requests another
\* token or changes the token or the endpoint handed to the shell.
C9_TokenRequestedOnce ==
    /\ [](/\ Len(tokenReqs) <= 1
          /\ Len(tokenReqs) = Count(calls, <<"Token">>)
          /\ \A i \in 1..Len(tokenReqs) :
                tokenReqs[i].expiration = "1d" /\ tokenReqs[i].readOnly = FALSE)
    /\ [][shellConfig.set =>
            /\ shellConfig' = shellConfig
            /\ token' = token
            /\ tokenReqs' = tokenReqs]_vars

C9_Witness ==
    /\ shellConfig.set /\ Len(tokenReqs) = 1 /\ lines = MaxLines /\ pc = "done"

-----------------------------------------------------------------------------
(* Properties of doQueryContext *)

\* C7 as claimed: when the split error for a malformed SQL text is reported,
\* no network call at all has been performed in the invocation: no directory
\* listing, no token request, no query request.
C7_SyntaxErrorBeforeNetwork ==
    qResult = "err_split" =>
        CallAt("List") = 0 /\ CallAt("Token") = 0 /\ posts = <<>>

\* C7 as amended: when the SQL text handed to doQueryContext is malformed
\* (unterminated quote or block comment), doQueryContext returns the split error
\* and makes no query HTTP request; the directory listing and the token request
\* of the invocation have been made before.
C7_SplitErrorNoRequest ==
    /\ [][qPc = "call" /\ SplitStatementToPieces(qStmt).err =>
            posts' = posts /\ (qPc' = "done" => qResult' = "err_split")]_vars
    /\ [](qPc = "done" /\ SplitStatementToPieces(qStmt).err => qResult = "err_split")
    /\ [](qPc # "idle" => CallAt("List") > 0 /\ (db # NilDb => CallAt("Token") > 0))

C7_Witness ==
    /\ qPc = "done" /\ qResult = "err_split" /\ posts = <<>>
    /\ Len(args) = 2 /\ qStmt = <<"'", "a">> /\ qStmt = args[2]
    /\ CallAt("List") > 0 /\ CallAt("Token") > 0

\* C10 as claimed: for every call with SQL text that splits, exactly one POST
\* has been issued when the call has returned.
C10_OnePostPerCall ==
    qPc = "done" /\ ~SplitStatementToPieces(qStmt).err => Len(posts) = 1

\* C10 as amended: for every call with SQL text that splits and a url from
\* which a request can be built, exactly one POST to that url is handed to the
\* HTTP client, its body holds all the split statements in their order, and it
\* carries Authorization: Bearer <token> if and only if the token is not empty;
\* in every other case no request is made.
C10_OnePostWithAllStatements ==
    qPc = "done" =>
        IF ~SplitStatementToPieces(qStmt).err /\ UrlParse(qUrl).ok
        THEN /\ Len(posts) = 1
             /\ posts[1].method = "POST" /\ posts[1].url = qUrl
             /\ posts[1].body.statements = SplitStatementToPieces(qStmt).pieces
             /\ (posts[1].header # <<>>) = (qToken # <<>>)
             /\ \A i \in 1..Len(posts[1].header) :
                    posts[1].header[i] =
                        [key |-> "Authorization", value |-> Bearer \o qToken]
             /\ Len(posts[1].header) <= 1
        ELSE posts = <<>>

C10_Witness ==
    /\ qPc = "done" /\ Len(posts) = 1 /\ qToken = <<>>
    /\ posts[1].body.statements = <<<<"a">>, <<"b", "b">>>>
    /\ posts[1].header = <<>>

-----------------------------------------------------------------------------
(* Properties of the statement list *)

\* what each position of a text is: "sep" for a ';' outside quotes and comments,
\* "quote" inside a quoted string (its quotes included), "comment" inside a
\* comment, "code" otherwise
RECURSIVE labelsFrom(_, _, _)
labelsFrom(blob, i, mode) ==
    IF i > Len(blob) THEN <<>>
    ELSE LET c == blob[i]
             nxt == IF i < Len(blob) THEN blob[i + 1] ELSE ""
         IN
         IF mode = "quote"
         THEN <<"quote">> \o labelsFrom(blob, i + 1, IF c = "'" THEN "sql" ELSE "quote")
         ELSE IF mode = "line"
         THEN IF c = "\n" THEN <<"code">> \o labelsFrom(blob, i + 1, "sql")
              ELSE <<"comment">> \o labelsFrom(blob, i + 1, "line")
         ELSE IF mode = "block"
         THEN IF c = "*" /\ nxt = "/"
              THEN <<"comment", "comment">> \o labelsFrom(blob, i + 2, "sql")
              ELSE <<"comment">> \o labelsFrom(blob, i + 1, "block")
         ELSE IF c = ";" THEN <<"sep">> \o labelsFrom(blob, i + 1, "sql")
         ELSE IF c = "'" THEN <<"quote">> \o labelsFrom(blob, i + 1, "quote")
         ELSE IF c = "-" /\ nxt = "-"
         THEN <<"comment", "comment">> \o labelsFrom(blob, i + 2, "line")
         ELSE IF c = "/" /\ nxt = "*"
         THEN <<"comment", "comment">> \o labelsFrom(blob, i + 2, "block")
         ELSE <<"code">> \o labelsFrom(blob, i + 1, "sql")

Labels(blob) == labelsFrom(blob, 1, "sql")

\* the elements of a set of positions, in increasing order
Ascending(P) ==
    [k \in 1..Cardinality(P) |-> CHOOSE p \in P : Cardinality({q \in P : q <= p}) = k]

\* positions of the top-level separators of a text
TopSeparators(blob) == {i \in 1..Len(blob) : Labels(blob)[i] = "sep"}

\* positions of a text that belong to a statement and are not white space
Significant(blob) ==
    {i \in 1..Len(blob) :
        Labels(blob)[i] \in {"code", "quote"} /\ blob[i] \notin WhiteSpace}

\* the significant characters of the k-th segment between top-level separators
SegmentText(blob, k) ==
    LET seps == Ascending(TopSeparators(blob))
        lo == IF k = 1 THEN 0 ELSE seps[k - 1]
        hi == IF k > Len(seps) THEN Len(blob) + 1 ELSE seps[k]
        P == {i \in Significant(blob) : lo < i /\ i < hi}
    IN [j \in 1..Cardinality(P) |-> blob[Ascending(P)[j]]]

\* the top-level statements of a text: its non-empty segments, in source order
TopLevelStatements(blob) ==
    LET n == Cardinality(TopSeparators(blob)) + 1
        ne == {k \in 1..n : SegmentText(blob, k) # <<>>}
    IN [j \in 1..Cardinality(ne) |-> SegmentText(blob, Ascending(ne)[j])]

\* a statement without its white space
Squeeze(st) ==
    LET P == {i \in 1..Len(st) : st[i] \notin WhiteSpace} IN
    [j \in 1..Cardinality(P) |-> st[Ascending(P)[j]]]

\* C11: the statement list of a request has exactly one non-empty element per
\* top-level statement of the SQL text, in source order: a ';' inside a quote or
\* a comment does not separate, and a segment holding only white space or
\* comments gives no element.
C11_OneElementPerStatement ==
    \A r \in 1..Len(posts) :
        LET st == posts[r].body.statements
            top == TopLevelStatements(qStmt)
        IN /\ Len(st) = Len(top)
           /\ \A k \in 1..Len(st) :
                /\ st[k] # <<>> /\ Trim(st[k]) = st[k]
                /\ Squeeze(st[k]) = top[k]

C11_Witness ==
    /\ qPc = "done" /\ Len(posts) = 1
    /\ qStmt = <<"a", ";", " ", "-", "-", ";", "\n", "b", "b", ";">>
    /\ posts[1].body.statements = <<<<"a">>, <<"b", "b">>>>

-----------------------------------------------------------------------------
(* Properties of the progress indicator and of the two modes *)

\* C12 as stated: on every invocation, single-shot included, the indicator has
\* been started before resolution and credential issuance begin, so no client,
\* listing or token call is made with the indicator never started.
C12_StartedOnEveryInvocation ==
    calls # <<>> => startCalls = 1

\* C12: the indicator is started at invocation start in interactive mode only:
\* with one argument it has been started exactly once before the first client,
\* listing or token call; with a SQL argument, or with an empty reference, it is
\* never started.
C12_StartedInInteractiveOnly ==
    /\ (Len(args) = 1 /\ nameOrUrl # <<>> /\ pc # "start") => startCalls = 1
    /\ (Len(args) = 1 /\ calls # <<>>) => startCalls = 1
    /\ (Len(args) = 2 \/ nameOrUrl = <<>>) => (startCalls = 0 /\ ~spinnerActive)

C12_Witness ==
    /\ Len(args) = 2
    /\ Count(calls, <<"Token">>) = 1
    /\ startCalls = 0

\* the outcomes of RunE that are errors returned before a shell is started
EarlyErrors ==
    {"err_name", "err_client", "err_settings", "err_list", "err_notfound",
     "err_token", "err_nosql"}

\* C13: with a second argument that is the empty string the command ends with
\* an error and starts neither RunShellLine nor RunShell; when client, settings,
\* resolution and token all succeed, the error is "no SQL command to execute".
C13_EmptySqlIsUsageError ==
    /\ (Len(args) = 2 /\ args[2] = <<>>) =>
          /\ Count(calls, <<"RunShellLine">>) = 0
          /\ Count(calls, <<"RunShell">>) = 0
          /\ ~shellConfig.set /\ callbackCalls = 0 /\ lines = 0
          /\ pc \notin {"connect", "session"}
          /\ pc = "done" => outcome \in EarlyErrors
          /\ (pc = "done" /\ ResolvedOk /\ outcome # "err_token") => outcome = "err_nosql"
    /\ outcome = "err_nosql" => (Len(args) = 2 /\ args[2] = <<>>)

C13_Witness ==
    /\ pc = "done" /\ outcome = "err_nosql"
    /\ Len(args) = 2 /\ args[2] = <<>>

\* RunE has handed control to the shell library
ShellStarted ==
    \/ pc \in {"connect", "session"}
    \/ pc = "done" /\ outcome \in {"ok", "err_shell"}

\* C14: the two modes exclude each other and each runs at most once: with a
\* non-empty SQL argument RunShellLine is called exactly once and RunShell never,
\* the line is executed once and the command is then over; with no SQL argument
\* RunShell is called exactly once and RunShellLine never.
C14_ModesExclusiveOnce ==
    LET nLine == Count(calls, <<"RunShellLine">>)
        nLoop == Count(calls, <<"RunShell">>)
    IN /\ nLine + nLoop <= 1
       /\ nLine = 1 => (Len(args) = 2 /\ args[2] # <<>>)
       /\ nLoop = 1 => Len(args) = 1
       /\ ShellStarted => nLine + nLoop = 1
       /\ ~ShellStarted => (nLine + nLoop = 0 /\ lines = 0)
       /\ Len(args) = 2 =>
             /\ lines <= 1
             /\ lines = 1 => pc = "done"
             /\ (pc = "done" /\ outcome = "ok") => (nLine = 1 /\ lines = 1)

C14_Witness ==
    /\ pc = "done" /\ outcome = "ok"
    /\ Len(args) = 2
    /\ calls[Len(calls)] = "RunShellLine"
    /\ lines = 1

-----------------------------------------------------------------------------
(* db create: createCmd.RunE *)

\* line 134: the largest database file accepted, 128 << 20 bytes
MaxFileSize == 134217728

\* values of args, --location, --from-file and of stat.Size()
CreateArgs == {<<>>, <<"">>, <<"n">>}
LocationFlags == {"", "loc"}
FromFileFlags == {"", "f"}
FileSizes == {MaxFileSize, MaxFileSize + 1}

\* outcomes of isSQLiteFile: (true, nil), (false, nil), (_, err)
SQLiteChecks == {"valid", "invalid", "err"}

RemoteCall(op, ok) ==
    [op |-> op, name |-> cName, region |-> region,
     image |-> IF canaryFlag THEN "canary" ELSE "latest", ok |-> ok]

\* a return of createCmd.RunE; the deferred bar.Stop() of line 75 runs when the
\* spinner exists, and before line 74 there is no spinner to stop
CreateReturn(result) ==
    /\ cPc' = "done"
    /\ cOutcome' = result
    /\ barActive' = FALSE

\* lines 119-147: the file to seed from, "nil" when --from-file is not given
getDbFile(flag, openOk, statOk, size, sqlite) ==
    IF flag = "" THEN [err |-> FALSE, file |-> "nil"]
    ELSE IF ~openOk THEN [err |-> TRUE, file |-> "nil"]
    ELSE IF ~statOk THEN [err |-> TRUE, file |-> "nil"]
    ELSE IF size > MaxFileSize THEN [err |-> TRUE, file |-> "nil"]
    ELSE IF sqlite = "err" THEN [err |-> TRUE, file |-> "nil"]
    ELSE IF sqlite = "invalid" THEN [err |-> TRUE, file |-> "nil"]
    ELSE [err |-> FALSE, file |-> flag]

\* lines 29-32: settings.ReadSettings
Create_ReadSettings ==
    /\ cPc = "start"
    /\ \E ok \in BOOLEAN :
          IF ok
          THEN cPc' = "name" /\ UNCHANGED <<cOutcome, barActive>>
          ELSE CreateReturn("err_settings")
    /\ UNCHANGED <<cArgs, locationFlag, canaryFlag, fromFileFlag, cName, region,
                   dbFile, remoteDbs, remoteInstances, cCalls, settingsOps>>
    /\ UNCHANGED <<shellVars, queryVars>>

\* lines 33-42: the name given, or a generated one
Create_Name ==
    /\ cPc = "name"
    /\ IF Len(cArgs) = 0 \/ cArgs[1] = ""
       THEN \E ok \in BOOLEAN :
               IF ok
               THEN /\ cName' = "generated"
                    /\ cPc' = "client"
                    /\ UNCHANGED <<cOutcome, barActive>>
               ELSE CreateReturn("err_rng") /\ UNCHANGED cName
       ELSE /\ cName' = cArgs[1]
            /\ cPc' = "client"
            /\ UNCHANGED <<cOutcome, barActive>>
    /\ UNCHANGED <<cArgs, locationFlag, canaryFlag, fromFileFlag, region,
                   dbFile, remoteDbs, remoteInstances, cCalls, settingsOps>>
    /\ UNCHANGED <<shellVars, queryVars>>

\* lines 43-46: createTursoClient
Create_Client ==
    /\ cPc = "client"
    /\ \E ok \in BOOLEAN :
          IF ok
          THEN cPc' = "region" /\ UNCHANGED <<cOutcome, barActive>>
          ELSE CreateReturn("err_client")
    /\ UNCHANGED <<cArgs, locationFlag, canaryFlag, fromFileFlag, cName, region,
                   dbFile, remoteDbs, remoteInstances, cCalls, settingsOps>>
    /\ UNCHANGED <<shellVars, queryVars>>

\* lines 47-53: the location given must be valid; without one the closest is taken
Create_Region ==
    /\ cPc = "region"
    /\ \E valid \in BOOLEAN :
          IF locationFlag # "" /\ ~valid
          THEN CreateReturn("err_location") /\ UNCHANGED region
          ELSE /\ region' = IF locationFlag = "" THEN "closest" ELSE locationFlag
               /\ cPc' = "file"
               /\ UNCHANGED <<cOutcome, barActive>>
    /\ UNCHANGED <<cArgs, locationFlag, canaryFlag, fromFileFlag, cName,
                   dbFile, remoteDbs, remoteInstances, cCalls, settingsOps>>
    /\ UNCHANGED <<shellVars, queryVars>>

\* lines 63-66: getDbFile
Create_GetDbFile ==
    /\ cPc = "file"
    /\ \E openOk \in BOOLEAN, statOk \in BOOLEAN, size \in FileSizes,
          sqlite \in SQLiteChecks :
          LET r == getDbFile(fromFileFlag, openOk, statOk, size, sqlite) IN
          IF r.err
          THEN CreateReturn("err_file") /\ UNCHANGED dbFile
          ELSE /\ dbFile' = r.file
               /\ cPc' = "create"
               /\ UNCHANGED <<cOutcome, barActive>>
    /\ UNCHANGED <<cArgs, locationFlag, canaryFlag, fromFileFlag, cName, region,
                   remoteDbs, remoteInstances, cCalls, settingsOps>>
    /\ UNCHANGED <<shellVars, queryVars>>

\* lines 74-85: the spinner starts and the database is created on the remote
Create_Database ==
    /\ cPc = "create"
    /\ \E ok \in BOOLEAN :
          /\ cCalls' = Append(cCalls, RemoteCall("Databases.Create", ok))
          /\ IF ok
             THEN /\ remoteDbs' = remoteDbs \cup {cName}
                  /\ barActive' = TRUE
                  /\ cPc' = "seed"
                  /\ UNCHANGED cOutcome
             ELSE /\ CreateReturn("err_create")
                  /\ UNCHANGED remoteDbs
    /\ UNCHANGED <<cArgs, locationFlag, canaryFlag, fromFileFlag, cName, region,
                   dbFile, remoteInstances, settingsOps>>
    /\ UNCHANGED <<shellVars, queryVars>>

\* mutant of Create_Seed: a failed seeding leaves the database alone
M_Create_Seed_NoDelete ==
    /\ cPc = "seed"
    /\ IF dbFile = "nil"
       THEN /\ cPc' = "instance"
            /\ UNCHANGED <<cCalls, cOutcome, barActive>>
       ELSE \E ok \in BOOLEAN :
               /\ cCalls' = Append(cCalls, RemoteCall("Databases.Seed", ok))
               /\ IF ok
                  THEN cPc' = "instance" /\ UNCHANGED <<cOutcome, barActive>>
                  ELSE CreateReturn("err_seed")
    /\ UNCHANGED <<cArgs, locationFlag, canaryFlag, fromFileFlag, cName, region,
                   dbFile, remoteDbs, remoteInstances, settingsOps>>
    /\ UNCHANGED <<shellVars, queryVars>>

\* lines 87-94: the database is seeded from the file when there is one; when
\* that fails, Databases.Delete is called, its result is dropped, and the
\* command returns the seeding error
Create_Seed ==
    /\ cPc = "seed"
    /\ IF dbFile = "nil"
       THEN /\ cPc' = "instance"
            /\ UNCHANGED <<cCalls, remoteDbs, cOutcome, barActive>>
       ELSE \E ok \in BOOLEAN :
               IF ok
               THEN /\ cCalls' = Append(cCalls, RemoteCall("Databases.Seed", TRUE))
                    /\ cPc' = "instance"
                    /\ UNCHANGED <<remoteDbs, cOutcome, barActive>>
               ELSE \E deleted \in BOOLEAN :
                       /\ cCalls' = cCalls \o <<RemoteCall("Databases.Seed", FALSE),
                                                RemoteCall("Databases.Delete", deleted)>>
                       /\ remoteDbs' = IF deleted THEN remoteDbs \ {cName} ELSE remoteDbs
                       /\ CreateReturn("err_seed")
    /\ UNCHANGED <<cArgs, locationFlag, canaryFlag, fromFileFlag, cName, region,
                   dbFile, remoteInstances, settingsOps>>
    /\ UNCHANGED <<shellVars, queryVars>>

\* mutant of Create_Instance: the settings are written before the instance exists
M_Create_Instance_SettingsFirst ==
    /\ cPc = "instance"
    /\ settingsOps' = Append(settingsOps, "AddDatabase")
    /\ \E ok \in BOOLEAN :
          /\ cCalls' = Append(cCalls, RemoteCall("Instances.Create", ok))
          /\ IF ok
             THEN /\ remoteInstances' = remoteInstances \cup {cName}
                  /\ cPc' = "finish"
                  /\ UNCHANGED <<cOutcome, barActive>>
             ELSE /\ CreateReturn("err_instance")
                  /\ UNCHANGED remoteInstances
    /\ UNCHANGED <<cArgs, locationFlag, canaryFlag, fromFileFlag, cName, region,
                   dbFile, remoteDbs>>
    /\ UNCHANGED <<shellVars, queryVars>>

\* lines 96-98: the instance of the database is created
Create_Instance ==
    /\ cPc = "instance"
    /\ \E ok \in BOOLEAN :
          /\ cCalls' = Append(cCalls, RemoteCall("Instances.Create", ok))
          /\ IF ok
             THEN /\ remoteInstances' = remoteInstances \cup {cName}
                  /\ cPc' = "finish"
                  /\ UNCHANGED <<cOutcome, barActive>>
             ELSE /\ CreateReturn("err_instance")
                  /\ UNCHANGED remoteInstances
    /\ UNCHANGED <<cArgs, locationFlag, canaryFlag, fromFileFlag, cName, region,
                   dbFile, remoteDbs, settingsOps>>
    /\ UNCHANGED <<shellVars, queryVars>>

\* lines 100-115: the spinner stops, the settings record the database, the
\* command returns nil
Create_Finish ==
    /\ cPc = "finish"
    /\ settingsOps' = settingsOps \o
                        <<"AddDatabase", "InvalidateDbNamesCache", "RegisterUse">>
    /\ CreateReturn("ok")
    /\ UNCHANGED <<cArgs, locationFlag, canaryFlag, fromFileFlag, cName, region,
                   dbFile, remoteDbs, remoteInstances, cCalls>>
    /\ UNCHANGED <<shellVars, queryVars>>

\* the state when createCmd.RunE is entered
InitCreate ==
    /\ InitShellIdle
    /\ InitQueryIdle
    /\ cArgs \in CreateArgs
    /\ locationFlag \in LocationFlags
    /\ canaryFlag \in BOOLEAN
    /\ fromFileFlag \in FromFileFlags
    /\ cPc = "start"
    /\ cName = "" /\ region = "" /\ dbFile = "nil"
    /\ barActive = FALSE
    /\ remoteDbs = {} /\ remoteInstances = {}
    /\ cCalls = <<>> /\ settingsOps = <<>>
    /\ cOutcome = "none"

NextCreate ==
    \/ Create_ReadSettings \/ Create_Name \/ Create_Client \/ Create_Region
    \/ Create_GetDbFile \/ Create_Database \/ Create_Seed \/ Create_Instance
    \/ Create_Finish

SpecCreate == InitCreate /\ [][NextCreate]_vars

-----------------------------------------------------------------------------
(* Properties of db create *)

\* the operations of the remote calls made so far, in order
CallOps == [i \in 1..Len(cCalls) |-> cCalls[i].op]

\* C15 as stated: after a failed seeding the database is gone from the remote,
\* the command has returned an error, there is no instance and the settings
\* are as they were.
C15_SeedFailureDeletesDb ==
    cOutcome = "err_seed" =>
        /\ cName \notin remoteDbs
        /\ cName \notin remoteInstances
        /\ settingsOps = <<>>

\* C15: after a failed seeding the deletion of the database has been requested
\* exactly once, right after the seeding, and the database is gone from the
\* remote exactly when that request succeeded; the command has returned the
\* seeding error, no instance creation was requested and the settings are as
\* they were. Seeding fails on no other path.
C15_SeedFailureRequestsDelete ==
    /\ cOutcome = "err_seed" =>
          /\ cPc = "done"
          /\ CallOps = <<"Databases.Create", "Databases.Seed", "Databases.Delete">>
          /\ \A i \in 1..3 : cCalls[i].name = cName
          /\ cCalls[1].ok /\ ~cCalls[2].ok
          /\ (cName \in remoteDbs) <=> ~cCalls[3].ok
          /\ cName \notin remoteInstances
          /\ settingsOps = <<>>
    /\ \A i \in 1..Len(cCalls) :
          (cCalls[i].op = "Databases.Seed" /\ ~cCalls[i].ok) => cOutcome = "err_seed"

C15_Witness ==
    /\ cPc = "done" /\ cOutcome = "err_seed"
    /\ Len(cCalls) = 3 /\ cCalls[3].op = "Databases.Delete" /\ cCalls[3].ok
    /\ remoteDbs = {}

\* the index of the first call of an operation that succeeded, 0 when none did
FirstOk(op) ==
    LET S == {i \in 1..Len(cCalls) : cCalls[i].op = op /\ cCalls[i].ok} IN
    IF S = {} THEN 0 ELSE CHOOSE i \in S : \A j \in S : i <= j

\* C16: the settings are changed only when database creation, seeding (if a
\* file is given) and instance creation have succeeded, in that order, and then
\* by AddDatabase, InvalidateDbNamesCache, RegisterUse; every error return
\* leaves them unchanged; instance creation is requested only after database
\* creation has succeeded.
C16_SettingsOnlyAfterSuccess ==
    /\ settingsOps \in {<<>>, <<"AddDatabase", "InvalidateDbNamesCache", "RegisterUse">>}
    /\ settingsOps # <<>> =>
          /\ cOutcome = "ok"
          /\ FirstOk("Databases.Create") = 1
          /\ FirstOk("Instances.Create") = Len(cCalls)
          /\ dbFile # "nil" => CallOps = <<"Databases.Create", "Databases.Seed",
                                          "Instances.Create">> /\ cCalls[2].ok
          /\ dbFile = "nil" => CallOps = <<"Databases.Create", "Instances.Create">>
    /\ (cPc = "done" /\ cOutcome # "ok") => settingsOps = <<>>
    /\ (cPc = "done" /\ cOutcome = "ok") => settingsOps # <<>>
    /\ \A i \in 1..Len(cCalls) :
          cCalls[i].op = "Instances.Create" =>
              /\ i > 1
              /\ cCalls[1].op = "Databases.Create" /\ cCalls[1].ok

C16_Witness ==
    /\ cPc = "done" /\ cOutcome = "ok"
    /\ dbFile # "nil"
    /\ settingsOps = <<"AddDatabase", "InvalidateDbNamesCache", "RegisterUse">>
    /\ cName \in remoteDbs /\ cName \in remoteInstances

====
